---------------------------- MODULE Spec2Model ----------------------------
(***************************************************************************)
(* Model of the rift-rewind backend:                                       *)
(*   - the ingestion lambda  (backend/lambda/retrieve_match_data.py),      *)
(*   - the start-request lambda (backend/lambda/trigger_step.py),          *)
(*   - the Step Functions workflow (backend/cdk/stacks/rift_trivia_stack)  *)
(*     with the lambdas it invokes (generate_facts, send_fail_message),    *)
(*   - the aggregation job (backend/glue/match-summary.py).                *)
(*                                                                         *)
(* JSON objects are functions from key names to values, so that a lookup   *)
(* of a key that is absent (Python KeyError, an unresolvable JSONPath)     *)
(* is decided by the key names the code really uses.                       *)
(***************************************************************************)
EXTENDS Integers, Sequences, FiniteSets, TLC

VARIABLES
    \* ---- ingestion lambda ------------------------------------------------
    store,      \* S3: keys of the per-game records, all players and years
    apiIds,     \* external API: the id list per year of player "p1"
    ing,        \* the running invocation: locals of lambda_handler
    posted,     \* events posted by the running invocation, in order
    fetched,    \* payload requests issued: the id, and whether it was stored then
    hist,       \* what is remembered of the invocations already finished
    \* ---- orchestration ---------------------------------------------------
    runs,       \* executions of the state machine, in start order
    trig,       \* the invocations of trigger_step.lambda_handler
    sent,       \* events posted to each connection id, in order
    tainted,    \* (player, year) pairs whose requests overlapped or skipped the check
    \* ---- aggregation job -------------------------------------------------
    job,        \* the running invocation of match-summary.py: locals of main
    summary,    \* S3: the objects under summary/, with the invocation that wrote them
    calc        \* one application of a function of the code: input and result

ingVars == <<store, apiIds, ing, posted, fetched, hist>>
orchVars == <<runs, trig, sent, tainted>>
aggVars == <<job, summary, calc>>
vars == <<store, apiIds, ing, posted, fetched, hist, runs, trig, sent, tainted,
          job, summary, calc>>

\* ------------------------------------------------------------------------
\* Bounds of the model
\* ------------------------------------------------------------------------
MaxIds == 2          \* longest id list the external API holds for one year
batch_size == 2      \* page size of the id listing (scaled down)
MaxThrottle == 1     \* rate-limit (429) answers the API gives in one behaviour
MaxInvocations == 2  \* invocations of the ingestion lambda in one behaviour

None == [none |-> TRUE]

\* No invocation of the aggregation job, no function applied.
JobIdle == [pc |-> "idle", puuid |-> "", year |-> 0, df |-> {}, final_data |-> None,
            wrote |-> {}, n |-> 0]
CalcIdle == [fn |-> "", arg |-> None, out |-> None, done |-> FALSE]

Years == {2023, 2024}
IdsOfYear(y) == IF y = 2024 THEN {"m1", "m2"} ELSE {"o1"}
MatchIds == IdsOfYear(2023) \cup IdsOfYear(2024)
YearOf(id) == IF id \in IdsOfYear(2024) THEN 2024 ELSE 2023

SeqsUpTo(S, n) == UNION {[1..k -> S] : k \in 0..n}

Range(s) == {s[k] : k \in 1..Len(s)}

Min(a, b) == IF a < b THEN a ELSE b


\* ------------------------------------------------------------------------
\* External game-data API and storage, as the ingestion lambda sees them
\* ------------------------------------------------------------------------

\* The parts of a payload the code reads outside the participant entries:
\* info.stats stands for gameCreation, gameDuration, gameMode and queueId.
PayloadFields == {"metadata.matchId", "info.participants", "info.stats",
                  "info.gameStartTimestamp"}

\* One entry of info.participants: its puuid (NoKey when the entry has no such
\* key), whether it has every per-player field the record is built from, and
\* the champion it names.
Champions == {"A", "B"}
NoKey == "<no key>"
Entries == [puuid : {"p1", "p2", NoKey}, stats : BOOLEAN, championName : Champions]
Entry(puuid, stats, champ) == [puuid |-> puuid, stats |-> stats, championName |-> champ]

\* A 200 answer of the payload endpoint for match id: the full payload of a
\* game the player took part in, that payload lacking one of its parts or the
\* player's own fields, an empty object, or the full payload of a game the
\* player is not part of.
Payloads(id) ==
    LET other == Entry("p2", TRUE, "B")
        me == Entry("p1", TRUE, "A")
    IN
    [matchId : {id},
     fields : {PayloadFields} \cup {PayloadFields \ {f} : f \in PayloadFields},
     participants : {<<other, me>>}]
    \cup {[matchId |-> id, fields |-> PayloadFields,
           participants |-> <<other, Entry("p1", FALSE, "A")>>],
          [matchId |-> id, fields |-> {}, participants |-> <<>>],
          [matchId |-> id, fields |-> PayloadFields, participants |-> <<other>>]}

\* Python truthiness of what fetch_match_data returned.
Truthy(match_data) == match_data # None /\ match_data.fields # {}

\* Key of a stored record: match-history/{puuid}/stats/{year}/{mm}/{dd}/{id}.json
KeyWithoutId(puuid, year, match_id) == [puuid |-> puuid, year |-> year, match_id |-> ""]
StatsKey(puuid, year, match_id) == [puuid |-> puuid, year |-> year, match_id |-> match_id]

\* An object of the bucket: its key and its body.  put_object replaces the
\* object of the same key, if there is one, and touches no other.
S3Object(key, body) ==
    [puuid |-> key.puuid, year |-> key.year, match_id |-> key.match_id, body |-> body]
KeyOf(o) == [puuid |-> o.puuid, year |-> o.year, match_id |-> o.match_id]
put_object(objs, key, body) == {o \in objs : KeyOf(o) # key} \cup {S3Object(key, body)}

\* An exception leaving a block of code.
Raise(e) == [raised |-> e]
IsRaise(r) == "raised" \in DOMAIN r

\* The parts of the payload extract_player_stats reads (it does not read
\* gameStartTimestamp).
StatsFields == {"metadata.matchId", "info.participants", "info.stats"}

\* next((p for p in participants if p['puuid'] == puuid), None): the first
\* entry of that puuid; an entry without the key met before it raises.
RECURSIVE FirstEntry(_, _)
FirstEntry(participants, puuid) ==
    IF participants = <<>> THEN None
    ELSE IF Head(participants).puuid = NoKey THEN Raise("KeyError")
    ELSE IF Head(participants).puuid = puuid THEN Head(participants)
    ELSE FirstEntry(Tail(participants), puuid)

\* lines 141-182: the body of the try block
StatsBody(match_data, puuid) ==
    IF "info.participants" \notin match_data.fields THEN Raise("KeyError")
    ELSE LET player_data == FirstEntry(match_data.participants, puuid) IN
         IF IsRaise(player_data) THEN player_data
         ELSE IF player_data = None THEN None
         ELSE IF ~(StatsFields \subseteq match_data.fields) THEN Raise("KeyError")
         ELSE IF ~player_data.stats THEN Raise("KeyError")
         ELSE [matchId |-> match_data.matchId,
               championName |-> player_data.championName]

\* lines 140, 183-185: try ... except Exception: return None
NoTry(r) == r
ExceptReturnsNone(r) == IF IsRaise(r) THEN None ELSE r

extract_player_stats(match_data, puuid) ==
    ExceptReturnsNone(StatsBody(match_data, puuid))

\* list_objects_v2 under match-history/{puuid}/stats/: every year of the player.
ListNothing(puuid) == {}
list_existing_match_ids(puuid) ==
    {k.match_id : k \in {x \in store : x.puuid = puuid}}

\* fetch_match_ids answering 200: the page of the id list at offset start.
PageOf(ids, start, count) ==
    SubSeq(ids, start + 1, Min(start + count, Len(ids)))

\* new_match_ids = [m for m in all_match_ids if m not in existing_match_ids]
RECURSIVE FilterReversed(_, _)
FilterReversed(ids, existing) ==
    IF ids = <<>> THEN <<>>
    ELSE IF Head(ids) \in existing THEN FilterReversed(Tail(ids), existing)
    ELSE FilterReversed(Tail(ids), existing) \o <<Head(ids)>>

RECURSIVE FilterOut(_, _)
FilterOut(ids, existing) ==
    IF ids = <<>> THEN <<>>
    ELSE IF Head(ids) \in existing THEN FilterOut(Tail(ids), existing)
    ELSE <<Head(ids)>> \o FilterOut(Tail(ids), existing)

NoFilter(ids, existing) == ids
MissingIds(ids, existing) == FilterOut(ids, existing)

\* Keys lambda_handler reads from its event (lines 72-75).
RetrieveEventKeys == {"puuid", "year", "routing_value", "connectionId"}

\* Events the lambda is invoked with: the shape the handler reads, and the
\* shape the state machine's RetrieveMatchData task builds.
IngestEvent(year, conn, key) ==
    (key :> conn) @@ [k \in {"puuid", "year", "routing_value"} |->
        IF k = "puuid" THEN "p1" ELSE IF k = "year" THEN year ELSE "asia"]

IngIdle ==
    [pc |-> "idle", event |-> <<>>, existing_match_ids |-> {},
     all_match_ids |-> <<>>, start |-> 0, new_match_ids |-> <<>>, i |-> 1,
     complete |-> FALSE, cause |-> "", store0 |-> {}]

\* No request issued yet in the invocation.
NoReq == [kind |-> "none", pos |-> 0, status |-> 0, outcome |-> "", len |-> 0, have |-> 0]

NoHist == [n |-> 0, throttled |-> 0, last |-> <<>>, req |-> NoReq]

InitIngest ==
    \* another player's record
    /\ store = {S3Object(StatsKey("p2", 2024, "m1"),
                          [matchId |-> "m1", championName |-> "B"])}
    \* 2024: any list of its ids, repeats included; 2023: its one game or none
    /\ apiIds \in [Years -> SeqsUpTo(MatchIds, MaxIds)]
    /\ \A y \in Years : Range(apiIds[y]) \subseteq IdsOfYear(y)
    /\ Len(apiIds[2023]) <= 1
    /\ ing = IngIdle
    /\ posted = <<>>
    /\ fetched = <<>>
    /\ hist = NoHist
    /\ runs = <<>>
    /\ trig = <<>>
    /\ sent = <<>>
    /\ tainted = {}
    /\ job = JobIdle
    /\ summary = {}
    /\ calc = CalcIdle

\* The invocation that just ended, as the next one remembers it.
Finished ==
    [year |-> ing.event["year"], pc |-> ing.pc,
     left |-> {i \in Range(ing.all_match_ids) :
                  \A k \in store : ~(k.puuid = ing.event["puuid"] /\ k.match_id = i)}]

\* lambda_handler lines 71-75: the event's keys are read; a missing key raises.
IngestInvoke(year, conn, key) ==
    /\ ing.pc \in {"idle", "returned", "raised"}
    /\ hist.n < MaxInvocations
    /\ hist' = [n |-> hist.n + 1, throttled |-> hist.throttled,
                last |-> IF ing.pc = "idle" THEN <<>> ELSE <<Finished>>,
                req |-> NoReq]
    /\ LET event == IngestEvent(year, conn, key) IN
       IF RetrieveEventKeys \subseteq DOMAIN event
       THEN ing' = [IngIdle EXCEPT !.pc = "scan", !.event = event, !.store0 = store]
       ELSE ing' = [IngIdle EXCEPT !.pc = "raised", !.event = event, !.cause = "event",
                                   !.store0 = store]
    /\ posted' = <<>>
    /\ fetched' = <<>>
    /\ UNCHANGED <<store, apiIds>>
    /\ UNCHANGED <<orchVars, aggVars>>

\* line 80
IngestScan ==
    /\ ing.pc = "scan"
    /\ ing' = [ing EXCEPT !.pc = "page",
                          !.existing_match_ids = list_existing_match_ids(ing.event["puuid"])]
    /\ UNCHANGED <<store, apiIds, posted, fetched, hist>>
    /\ UNCHANGED <<orchVars, aggVars>>

PostFirst(ev) == IF ing.event["connectionId"] # "" THEN <<ev>> \o posted ELSE posted
Post(ev) == IF ing.event["connectionId"] # "" THEN Append(posted, ev) ELSE posted

\* fetch_match_ids lines 26-39, one request: the offset and count asked for,
\* the answer's status and length, and what the caller does with it.
BreakOnShortPage(start, count, status, batch, have) ==
    [kind |-> "list", pos |-> start, status |-> status,
     outcome |-> IF status = 429 THEN "retry"
                 ELSE IF status # 200 THEN "raise"
                 ELSE IF Len(batch) = count THEN "extend" ELSE "break",
     len |-> IF status = 200 THEN Len(batch) ELSE 0, have |-> have]
ListFailureAsEmpty(start, count, status, batch, have) ==
    [kind |-> "list", pos |-> start, status |-> status,
     outcome |-> IF status = 429 THEN "retry"
                 ELSE IF status = 200 /\ batch # <<>> THEN "extend" ELSE "break",
     len |-> IF status = 200 THEN Len(batch) ELSE 0, have |-> have]
ListRequest(start, count, status, batch, have) ==
    [kind |-> "list", pos |-> start, status |-> status,
     outcome |-> IF status = 429 THEN "retry"
                 ELSE IF status # 200 THEN "raise"
                 ELSE IF batch # <<>> THEN "extend" ELSE "break",
     len |-> IF status = 200 THEN Len(batch) ELSE 0, have |-> have]

\* fetch_match_data lines 41-49, one request for new_match_ids[i], and what
\* lines 108-126 do with the answer.
RateLimitAsFailure(i, status, match_data, puuid) ==
    [kind |-> "fetch", pos |-> i, status |-> status,
     outcome |-> IF ~Truthy(match_data) \/ extract_player_stats(match_data, puuid) = None
                 THEN "skip"
                 ELSE IF "info.gameStartTimestamp" \notin match_data.fields THEN "raise"
                 ELSE "put",
     len |-> 0, have |-> 0]
FailureRetried(i, status, match_data, puuid) ==
    [kind |-> "fetch", pos |-> i, status |-> status,
     outcome |-> IF status # 200 THEN "retry"
                 ELSE IF ~Truthy(match_data) \/ extract_player_stats(match_data, puuid) = None
                      THEN "skip"
                 ELSE IF "info.gameStartTimestamp" \notin match_data.fields THEN "raise"
                 ELSE "put",
     len |-> 0, have |-> 0]
PayloadRequest(i, status, match_data, puuid) ==
    [kind |-> "fetch", pos |-> i, status |-> status,
     outcome |-> IF status = 429 THEN "retry"
                 ELSE IF ~Truthy(match_data) \/ extract_player_stats(match_data, puuid) = None
                      THEN "skip"
                 ELSE IF "info.gameStartTimestamp" \notin match_data.fields THEN "raise"
                 ELSE "put",
     len |-> 0, have |-> 0]

\* lines 121-125: the count of the progress event, len(existing_match_ids)
\* after the add
NoCount(existing_match_ids, match_id) == 0
RunningCount(existing_match_ids, match_id) ==
    Cardinality(existing_match_ids \cup {match_id})

\* lines 85-104: one request of the id listing. 429 repeats the request, any
\* other non-200 raises; an empty page ends the paging, and the start event
\* is posted.
IngestPage(status) ==
    /\ ing.pc = "page"
    /\ LET batch == PageOf(apiIds[ing.event["year"]], ing.start, batch_size)
           req == ListRequest(ing.start, batch_size, status, batch, Len(ing.all_match_ids))
       IN
       IF req.outcome = "retry" THEN
          /\ hist.throttled < MaxThrottle
          /\ hist' = [hist EXCEPT !.throttled = @ + 1, !.req = req]
          /\ UNCHANGED <<ing, posted>>
       ELSE IF req.outcome = "raise" THEN
          /\ ing' = [ing EXCEPT !.pc = "raised", !.cause = "list"]
          /\ hist' = [hist EXCEPT !.req = req]
          /\ UNCHANGED posted
       ELSE IF req.outcome = "extend" THEN
          /\ ing' = [ing EXCEPT !.all_match_ids = @ \o batch, !.start = @ + batch_size]
          /\ hist' = [hist EXCEPT !.req = req]
          /\ UNCHANGED posted
       ELSE
          /\ ing' = [ing EXCEPT !.pc = "fetch", !.i = 1,
                        !.new_match_ids = MissingIds(ing.all_match_ids, ing.existing_match_ids)]
          /\ posted' = Post([state |-> "START_RETRIEVE_MATCH",
                             n |-> Len(ing.all_match_ids)])
          /\ hist' = [hist EXCEPT !.req = req]
    /\ UNCHANGED <<store, apiIds, fetched>>
    /\ UNCHANGED <<orchVars, aggVars>>

\* lines 106-126: one payload request for new_match_ids[i] and what follows it.
\* resp is None for a non-200 answer other than 429.
IngestFetch(status, resp) ==
    /\ ing.pc = "fetch"
    /\ ing.i <= Len(ing.new_match_ids)
    /\ LET match_id == ing.new_match_ids[ing.i]
           puuid == ing.event["puuid"]
           match_data == IF status = 200 THEN resp ELSE None
           req == PayloadRequest(ing.i, status, match_data, puuid)
       IN
       /\ status = 200 => resp \in Payloads(match_id)
       /\ status # 200 => resp = None
       /\ fetched' = Append(fetched, [id |-> match_id,
                                       stored |-> \E k \in store : k.puuid = puuid /\ k.match_id = match_id])
       /\ IF req.outcome = "retry" THEN
             /\ hist.throttled < MaxThrottle
             /\ hist' = [hist EXCEPT !.throttled = @ + 1, !.req = req]
             /\ UNCHANGED <<store, posted, ing>>
          ELSE IF req.outcome = "skip" THEN
             /\ ing' = [ing EXCEPT !.i = @ + 1]
             /\ hist' = [hist EXCEPT !.req = req]
             /\ UNCHANGED <<store, posted>>
          ELSE IF req.outcome = "raise" THEN
             \* line 112: KeyError outside any try
             /\ ing' = [ing EXCEPT !.pc = "raised", !.cause = "payload"]
             /\ hist' = [hist EXCEPT !.req = req]
             /\ UNCHANGED <<store, posted>>
          ELSE
             /\ store' = put_object(store,
                                     StatsKey(puuid, YearOf(match_data.matchId),
                                              match_data.matchId),
                                     extract_player_stats(match_data, puuid))
             /\ ing' = [ing EXCEPT !.i = @ + 1,
                                   !.existing_match_ids = @ \cup {match_data.matchId}]
             /\ posted' = Post([state |-> "RETRIEVING_MATCH",
                                n |-> RunningCount(ing.existing_match_ids, match_data.matchId)])
             /\ hist' = [hist EXCEPT !.req = req]
    /\ UNCHANGED apiIds
    /\ UNCHANGED <<orchVars, aggVars>>

\* lines 128-136
CompleteFlag(existing, all) == Cardinality(existing) = Len(all)

IngestReturn ==
    /\ ing.pc = "fetch"
    /\ ing.i > Len(ing.new_match_ids)
    /\ posted' = Post([state |-> "PROCESSING_MATCH", n |-> 0])
    /\ ing' = [ing EXCEPT !.pc = "returned",
                          !.complete = CompleteFlag(ing.existing_match_ids, ing.all_match_ids)]
    /\ UNCHANGED <<store, apiIds, fetched, hist>>
    /\ UNCHANGED <<orchVars, aggVars>>

NextIngest ==
    \/ \E y \in Years, c \in {"c1", ""}, k \in {"connectionId", "connection_id"} :
          IngestInvoke(y, c, k)
    \/ IngestScan
    \/ \E st \in {200, 429, 500} : IngestPage(st)
    \/ \E st \in {429, 404} : IngestFetch(st, None)
    \/ \E id \in MatchIds : \E p \in Payloads(id) : IngestFetch(200, p)
    \/ IngestReturn

SpecIngest ==
    /\ InitIngest
    /\ [][NextIngest]_vars


\* ------------------------------------------------------------------------
\* Orchestration: trigger_step.lambda_handler and the state machine
\* ------------------------------------------------------------------------
NumRequests == 2     \* start requests (invocations of trigger_step) in one behaviour
ListPageSize == 1    \* executions per page of list_executions (scaled down)
MaxExecutions == 2   \* executions started directly on the state machine

Puuids == {"p1", "p2"}

\* API Gateway gives every websocket connection its own non-empty id.
ConnIds == <<"c1", "c2", "c3", "c4">>

\* The JSON body of a start request: one player in two years, and another
\* player.
Bodies ==
    {b \in [puuid : Puuids, year : Years, summary_exists : BOOLEAN,
            final_exists : BOOLEAN, routing_value : {"asia"}] :
        b.puuid = "p2" => b.year = 2024}

\* dict.get: equality of two lookups, absent on both sides being None == None
SameGet(a, b, k) ==
    \/ k \in DOMAIN a /\ k \in DOMAIN b /\ a[k] = b[k]
    \/ k \notin DOMAIN a /\ k \notin DOMAIN b

\* trigger_step line 15
CheckOnlyIfNothingExists(body) == (~body.summary_exists) /\ (~body.final_exists)
NeedsCheck(body) == (~body.summary_exists) \/ (~body.final_exists)

\* trigger_step line 38
DuplicateByWrongKey(existing_input, body) ==
    /\ SameGet(existing_input, body, "puuid")
    /\ "Year" \in DOMAIN body
    /\ existing_input["year"] = body["Year"]
DuplicateBySamePlayer(existing_input, body) == SameGet(existing_input, body, "puuid")
IsDuplicate(existing_input, body) ==
    SameGet(existing_input, body, "puuid") /\ SameGet(existing_input, body, "year")

\* trigger_step lines 48-55: the input the execution is started with
StartInput(body, connection_id) ==
    [k \in {"puuid", "year", "summary_exists", "final_exists", "routing_value",
            "connectionId"} |->
        IF k = "connectionId" THEN connection_id ELSE body[k]]

Running == {r \in 1..Len(runs) : runs[r].status = "RUNNING"}

Max(S) == CHOOSE x \in S : \A y \in S : y <= x

\* The n newest elements of S, newest first.
RECURSIVE Newest(_, _)
Newest(S, n) ==
    IF n = 0 \/ S = {} THEN <<>>
    ELSE <<Max(S)>> \o Newest(S \ {Max(S)}, n - 1)

\* list_executions(statusFilter = RUNNING), newest first, one page from token
\* (0: from the top); the page and the next token (0: none).
ListExecutions(token) ==
    LET cand == {r \in Running : token = 0 \/ r < token}
        page == Newest(cand, ListPageSize)
    IN [page |-> page,
        next |-> IF cand \ Range(page) # {} THEN page[Len(page)] ELSE 0]

NewRun(input) ==
    [input |-> input, status |-> "RUNNING", state |-> "AssignVar",
     vars |-> <<>>, error |-> FALSE, trace |-> <<"AssignVar">>]

TrigIdle ==
    [pc |-> "idle", body |-> <<>>, running_executions |-> <<>>, next_token |-> 0,
     outcome |-> "", dup |-> FALSE, active0 |-> {}, known0 |-> 0, rival |-> FALSE]

Pair(body) == <<body.puuid, body.year>>
RunPair(r) == <<runs[r].input["puuid"], runs[r].input["year"]>>

InFlight(h) == trig[h].pc \notin {"idle", "done"}

\* A run active since request h arrived, for the same (player, year), is
\* still active.
DupActive(h) ==
    \E r \in trig[h].active0 \cap Running : RunPair(r) = Pair(trig[h].body)

\* A run for the same (player, year) was active when request h arrived, or
\* was started since.
RivalSeen(h) ==
    \E r \in trig[h].active0 \cup ((trig[h].known0 + 1)..Len(runs)) :
        RunPair(r) = Pair(trig[h].body)

\* The handler returns: its locals are gone; what it decided, whether a
\* duplicate was active at that moment, and whether a run for the same pair
\* was active at any moment of the handling, is remembered.
Returned(h, outcome) ==
    [TrigIdle EXCEPT !.pc = "done", !.body = trig[h].body, !.outcome = outcome,
                     !.dup = DupActive(h), !.rival = RivalSeen(h)]

\* lines 10-17: the request arrives
TriggerReceive(h, body) ==
    /\ trig[h].pc = "idle"
    /\ h > 1 => trig[h - 1].pc # "idle"
    /\ trig' = [trig EXCEPT ![h] =
                   [TrigIdle EXCEPT !.pc = IF NeedsCheck(body) THEN "list" ELSE "start",
                                    !.body = body, !.active0 = Running,
                                    !.known0 = Len(runs)]]
    /\ tainted' = tainted \cup
          IF \/ ~((~body.summary_exists) \/ (~body.final_exists))
             \/ \E g \in DOMAIN trig : g # h /\ InFlight(g) /\ Pair(trig[g].body) = Pair(body)
          THEN {Pair(body)} ELSE {}
    /\ UNCHANGED <<runs, sent>>
    /\ UNCHANGED <<ingVars, aggVars>>

\* lines 19-32: one call of list_executions
TriggerList(h) ==
    /\ trig[h].pc = "list"
    /\ LET response == ListExecutions(trig[h].next_token) IN
       trig' = [trig EXCEPT ![h].running_executions = @ \o response.page,
                            ![h].next_token = response.next,
                            ![h].pc = IF response.next = 0 THEN "check" ELSE "list"]
    /\ UNCHANGED <<runs, sent, tainted>>
    /\ UNCHANGED <<ingVars, aggVars>>

\* lines 34-44: describe every listed execution; BUSY on the first match
TriggerCheck(h) ==
    /\ trig[h].pc = "check"
    /\ IF \E k \in 1..Len(trig[h].running_executions) :
             IsDuplicate(runs[trig[h].running_executions[k]].input, trig[h].body)
       THEN /\ sent' = [sent EXCEPT ![ConnIds[h]] = Append(@, "BUSY")]
            /\ trig' = [trig EXCEPT ![h] = Returned(h, "busy")]
       ELSE /\ trig' = [trig EXCEPT ![h].pc = "start"]
            /\ UNCHANGED sent
    /\ UNCHANGED <<runs, tainted>>
    /\ UNCHANGED <<ingVars, aggVars>>

\* lines 46-58: start_execution
TriggerStart(h) ==
    /\ trig[h].pc = "start"
    /\ runs' = Append(runs, NewRun(StartInput(trig[h].body, ConnIds[h])))
    /\ trig' = [trig EXCEPT ![h] = Returned(h, "started")]
    /\ UNCHANGED <<sent, tainted>>
    /\ UNCHANGED <<ingVars, aggVars>>

\* ---- the state machine (rift_trivia_stack.py lines 417-532) ---------------

\* AssignVar: the JSONPaths of its parameters, each "$.<key>" of the input
AssignVarKeys ==
    {"puuid", "year", "final_exists", "summary_exists", "routing_value", "connection_id"}

\* Payloads the tasks build from $.vars
RetrievePayloadKeys == {"puuid", "year", "routing_value", "connection_id"}
GeneratePayloadKeys == {"puuid", "year", "connection_id"}
TaskPayload(keys, v) == [k \in keys |-> v[k]]
\* SendFailMessage: $.vars.connection_id and $.error
FailPayload(run) ==
    [k \in {"connection_id", "error"} |->
        IF k = "error" THEN run.error ELSE run.vars[k]]

\* Keys the handlers read from their event
GenerateEventKeys == {"puuid", "year", "final_exists", "connectionId"}
FailEventKeys == {"connectionId"}

PostTo(event, evs) == IF event["connectionId"] # "" THEN evs ELSE <<>>

\* What an invocation did: whether it raised, and the events it posted.
\* ok says whether the external calls of the handler's body succeeded.
InvokeRetrieve(event, ok) ==
    IF ~(RetrieveEventKeys \subseteq DOMAIN event)
    THEN [raised |-> TRUE, events |-> <<>>]          \* KeyError, line 72-75
    ELSE IF ok
    THEN [raised |-> FALSE,
          events |-> PostTo(event, <<"START_RETRIEVE_MATCH", "PROCESSING_MATCH">>)]
    ELSE [raised |-> TRUE, events |-> <<>>]          \* the id listing failed

\* generate_facts.lambda_handler
InvokeGenerate(event, ok) ==
    IF ~(GenerateEventKeys \subseteq DOMAIN event)
    THEN [raised |-> TRUE, events |-> <<>>]          \* KeyError, line 84-87
    ELSE IF event["final_exists"] = TRUE
    THEN IF ok THEN [raised |-> FALSE, events |-> PostTo(event, <<"COMPLETE">>)]
               ELSE [raised |-> TRUE, events |-> <<>>]
    ELSE IF ok THEN [raised |-> FALSE,
                     events |-> PostTo(event, <<"GENERATING_FACTS", "COMPLETE">>)]
               ELSE [raised |-> TRUE, events |-> PostTo(event, <<"GENERATING_FACTS">>)]

\* send_fail_message.lambda_handler
InvokeFail(event) ==
    IF ~(FailEventKeys \subseteq DOMAIN event)
    THEN [raised |-> TRUE, events |-> <<>>]          \* KeyError, line 10
    ELSE [raised |-> FALSE, events |-> PostTo(event, <<"FAIL">>)]

\* The two Choice states
FinalFirstWrong(v) ==
    IF v["final_exists"] = TRUE THEN "RetrieveMatchData" ELSE "SummaryExists?"
FinalExistsChoice(v) ==
    IF v["final_exists"] = TRUE THEN "GenerateFacts" ELSE "SummaryExists?"

SummaryChoiceToGlue(v) ==
    IF v["summary_exists"] = TRUE THEN "BedrockIngestionNote" ELSE "RunGlueETL"
SummaryExistsChoice(v) ==
    IF v["summary_exists"] = TRUE THEN "BedrockIngestionNote" ELSE "RetrieveMatchData"

\* Where a task goes when it raised: .add_catch(fail_handler, result_path="$.error")
CatchTarget == "SendFailMessage"

Goto(run, state) == [run EXCEPT !.state = state, !.trace = Append(@, state)]
RetriedInPlace(run) == run
Caught(run) == [Goto(run, CatchTarget) EXCEPT !.error = TRUE]
Ended(run, status) == [run EXCEPT !.status = status]

\* One state of the execution: the run after it, and the events posted in it.
StepOf(run, ok) ==
    LET none == <<>> IN
    CASE run.state = "AssignVar" ->
            IF AssignVarKeys \subseteq DOMAIN run.input
            THEN [run |-> [Goto(run, "FinalExists?") EXCEPT
                              !.vars = [k \in AssignVarKeys |-> run.input[k]]],
                  events |-> none]
            ELSE [run |-> Ended(run, "FAILED"), events |-> none]   \* States.Runtime
      [] run.state = "FinalExists?" ->
            [run |-> Goto(run, FinalExistsChoice(run.vars)), events |-> none]
      [] run.state = "SummaryExists?" ->
            [run |-> Goto(run, SummaryExistsChoice(run.vars)), events |-> none]
      [] run.state = "RetrieveMatchData" ->
            LET res == InvokeRetrieve(TaskPayload(RetrievePayloadKeys, run.vars), ok) IN
            [run |-> IF res.raised THEN Caught(run) ELSE Goto(run, "RunGlueETL"),
             events |-> res.events]
      [] run.state = "RunGlueETL" ->
            [run |-> IF ok THEN Goto(run, "BedrockIngestionNote") ELSE Caught(run),
             events |-> none]
      [] run.state = "BedrockIngestionNote" ->
            [run |-> Goto(run, "GenerateFacts"), events |-> none]
      [] run.state = "GenerateFacts" ->
            LET res == InvokeGenerate(TaskPayload(GeneratePayloadKeys, run.vars), ok) IN
            [run |-> IF res.raised THEN Caught(run) ELSE Goto(run, "Success"),
             events |-> res.events]
      [] run.state = "Success" ->
            [run |-> Ended(run, "SUCCEEDED"), events |-> none]
      [] run.state = "SendFailMessage" ->
            LET res == InvokeFail(FailPayload(run)) IN
            [run |-> IF res.raised THEN Ended(run, "FAILED") ELSE Goto(run, "Failed"),
             events |-> res.events]
      [] run.state = "Failed" ->
            [run |-> Ended(run, "FAILED"), events |-> none]

\* The observer handle of a run: whichever key its start input carries it under.
ConnOfInput(input) ==
    IF "connectionId" \in DOMAIN input THEN input["connectionId"]
    ELSE input["connection_id"]

SfnStep(r, ok) ==
    /\ r \in Running
    /\ LET step == StepOf(runs[r], ok) IN
       /\ runs' = [runs EXCEPT ![r] = step.run]
       /\ sent' = [sent EXCEPT ![ConnOfInput(runs[r].input)] = @ \o step.events]
    /\ UNCHANGED <<trig, tainted>>
    /\ UNCHANGED <<ingVars, aggVars>>

\* start_execution called on the state machine with an input of either key
\* naming: the one trigger_step writes, or the one AssignVar reads.
SfnInputs(conn) ==
    {[k \in {"puuid", "year", "summary_exists", "final_exists", "routing_value", ck} |->
        CASE k = "puuid" -> "p1" [] k = "year" -> 2024 [] k = "routing_value" -> "asia"
          [] k = "summary_exists" -> se [] k = "final_exists" -> fe [] OTHER -> conn] :
     se \in BOOLEAN, fe \in BOOLEAN, ck \in {"connectionId", "connection_id"}}

StartExecution(input) ==
    /\ Len(runs) < MaxExecutions
    /\ input \in SfnInputs(ConnIds[Len(runs) + 1])
    /\ runs' = Append(runs, NewRun(input))
    /\ UNCHANGED <<trig, sent, tainted>>
    /\ UNCHANGED <<ingVars, aggVars>>

Init ==
    /\ store = {}
    /\ apiIds = <<>>
    /\ ing = IngIdle
    /\ posted = <<>>
    /\ fetched = <<>>
    /\ hist = NoHist
    /\ runs = <<>>
    /\ trig = [h \in 1..NumRequests |-> TrigIdle]
    /\ sent = [c \in Range(ConnIds) |-> <<>>]
    /\ tainted = {}
    /\ job = JobIdle
    /\ summary = {}
    /\ calc = CalcIdle

Next ==
    \/ \E h \in 1..NumRequests, body \in Bodies : TriggerReceive(h, body)
    \/ \E h \in 1..NumRequests : TriggerList(h)
    \/ \E h \in 1..NumRequests : TriggerCheck(h)
    \/ \E h \in 1..NumRequests : TriggerStart(h)
    \/ \E r \in 1..Len(runs), ok \in BOOLEAN : SfnStep(r, ok)

\* Start requests and the executions they start.
Spec == Init /\ [][Next]_vars

InitSfn ==
    /\ store = {}
    /\ apiIds = <<>>
    /\ ing = IngIdle
    /\ posted = <<>>
    /\ fetched = <<>>
    /\ hist = NoHist
    /\ runs = <<>>
    /\ trig = <<>>
    /\ sent = [c \in Range(ConnIds) |-> <<>>]
    /\ tainted = {}
    /\ job = JobIdle
    /\ summary = {}
    /\ calc = CalcIdle

NextSfn ==
    \/ \E c \in Range(ConnIds) : \E input \in SfnInputs(c) : StartExecution(input)
    \/ \E r \in 1..Len(runs), ok \in BOOLEAN : SfnStep(r, ok)

\* The state machine alone, started with any input.
SpecSfn == InitSfn /\ [][NextSfn]_vars

\* The state machine with its scheduling: Step Functions takes the next
\* transition of every execution that is running.
SpecSfnLive ==
    /\ InitSfn
    /\ [][NextSfn]_vars
    /\ \A r \in 1..MaxExecutions : WF_vars(\E ok \in BOOLEAN : SfnStep(r, ok))

\* ------------------------------------------------------------------------
\* Claims about the ingestion lambda (checked under SpecIngest)
\* ------------------------------------------------------------------------

IngPuuid == ing.event["puuid"]
IngYear == ing.event["year"]

\* Ids stored for the player when the running invocation began.
StoredBefore == {k.match_id : k \in {x \in ing.store0 : x.puuid = IngPuuid}}

\* Records stored for the player in the period of the running invocation.
PeriodRecords == {k \in store : k.puuid = IngPuuid /\ k.year = IngYear}

\* C7: when ingest returns, complete is true exactly when the number of
\* records stored for the player in the period equals the number of ids
\* discovered for the period.
C7_CompleteIffPeriodCount ==
    ing.pc = "returned" =>
        (ing.complete <=> Cardinality(PeriodRecords) = Len(ing.all_match_ids))

\* C8 as stated: no payload request is ever issued for an id that is stored
\* for the player at the time of the request.
C8_NeverFetchStored ==
    \A k \in 1..Len(fetched) : ~fetched[k].stored

\* C8 amended: no payload request is issued for an id that was stored for
\* the player before the invocation started.
C8_NeverFetchStoredBefore ==
    ing.pc \in {"fetch", "returned", "raised"} =>
        \A k \in 1..Len(fetched) : fetched[k].id \notin StoredBefore

C8_Witness ==
    /\ ing.pc = "returned"
    /\ Range(ing.all_match_ids) \cap StoredBefore # {}
    /\ fetched # <<>>

\* The invocation before the running one returned, and was for the same period.
SecondRun ==
    /\ hist.last # <<>>
    /\ hist.last[1].pc = "returned"
    /\ ing.pc # "idle"
    /\ hist.last[1].year = IngYear

\* C9 as stated: a second invocation in succession for the same period stores
\* no additional record, whatever the first one did.
C9_SecondRunAddsNothing ==
    (SecondRun /\ ing.pc = "returned") => store = ing.store0

\* C9 amended: when the first invocation left no discovered id unstored, the
\* second one issues no payload request and stores nothing.
C9_SecondRunAfterFullRun ==
    (SecondRun /\ hist.last[1].left = {}) => (store = ing.store0 /\ fetched = <<>>)

C9_Witness ==
    /\ SecondRun
    /\ hist.last[1].left = {}
    /\ ing.pc = "returned"
    /\ ing.all_match_ids # <<>>

\* C10: a malformed or partial payload never makes the invocation raise.
C10_PayloadNeverAborts ==
    ~(ing.pc = "raised" /\ ing.cause = "payload")


\* ------------------------------------------------------------------------
\* Claims about the start requests (checked under Spec)
\* ------------------------------------------------------------------------

Count(seq, S) == Cardinality({k \in 1..Len(seq) : seq[k] \in S})

\* Request h was answered BUSY and started nothing.
AnsweredBusy(h) ==
    /\ trig[h].outcome = "busy"
    /\ Count(sent[ConnIds[h]], {"BUSY"}) = 1
    /\ \A r \in 1..Len(runs) : ConnOfInput(runs[r].input) # ConnIds[h]

C2_AtMostOneActive ==
    \A r1, r2 \in Running : r1 # r2 => RunPair(r1) # RunPair(r2)

\* C2 amended: two runs of the same (player, year) are active together only
\* if two requests for that pair were handled at overlapping times, or one of
\* them had both flags true.
C2_AtMostOneActiveWhenSequential ==
    \A r1, r2 \in Running :
        (r1 # r2 /\ RunPair(r1) = RunPair(r2)) => RunPair(r1) \in tainted

C2_Witness ==
    \E h \in DOMAIN trig : \E r \in Running :
        /\ trig[h].pc = "done"
        /\ trig[h].outcome = "busy"
        /\ RunPair(r) = Pair(trig[h].body)
        /\ Pair(trig[h].body) \notin tainted

TerminalEvents(r) == Count(sent[ConnOfInput(runs[r].input)], {"COMPLETE", "FAIL"})

\* C3: the observer of a run never gets more than one of COMPLETE and FAIL,
\* has got exactly one once the run is over, and a request answered BUSY gets
\* one BUSY and neither COMPLETE nor FAIL.
C3_ExactlyOneTerminalEvent ==
    /\ \A r \in 1..Len(runs) :
          /\ TerminalEvents(r) <= 1
          /\ runs[r].status # "RUNNING" => TerminalEvents(r) = 1
    /\ \A h \in DOMAIN trig :
          trig[h].outcome = "busy" =>
              /\ Count(sent[ConnIds[h]], {"BUSY"}) = 1
              /\ Count(sent[ConnIds[h]], {"COMPLETE", "FAIL"}) = 0

\* ------------------------------------------------------------------------
\* Claims about the state machine (checked under SpecSfn)
\* ------------------------------------------------------------------------

InTrace(r, state) == state \in Range(runs[r].trace)

\* C4: a run in which a stage raised goes to SendFailMessage, its observer
\* gets FAIL, and it ends in Failed without passing Success.
C4_StageFailureSendsFail ==
    \A r \in 1..Len(runs) :
        runs[r].error =>
            /\ InTrace(r, "SendFailMessage")
            /\ ~InTrace(r, "Success")
            /\ runs[r].status # "RUNNING" =>
                  /\ runs[r].status = "FAILED"
                  /\ runs[r].state = "Failed"
                  /\ Count(sent[ConnOfInput(runs[r].input)], {"FAIL"}) = 1

SkipsToFacts(input) ==
    \/ input["final_exists"] = TRUE
    \/ input["final_exists"] = FALSE /\ input["summary_exists"] = TRUE

PathToFacts(input) ==
    IF input["final_exists"] = TRUE
    THEN <<"AssignVar", "FinalExists?", "GenerateFacts">>
    ELSE <<"AssignVar", "FinalExists?", "SummaryExists?", "BedrockIngestionNote",
           "GenerateFacts">>

IsPrefix(s, t) == Len(s) <= Len(t) /\ \A k \in 1..Len(s) : s[k] = t[k]

\* C5: a run whose final_exists is true, or whose final_exists is false and
\* summary_exists true, never enters RetrieveMatchData or RunGlueETL: from
\* AssignVar it goes through the Choice states to GenerateFacts.
C5_SkipsIngestAndAggregate ==
    \A r \in 1..Len(runs) :
        SkipsToFacts(runs[r].input) =>
            /\ ~InTrace(r, "RetrieveMatchData")
            /\ ~InTrace(r, "RunGlueETL")
            /\ \/ IsPrefix(runs[r].trace, PathToFacts(runs[r].input))
               \/ IsPrefix(PathToFacts(runs[r].input), runs[r].trace)

C5_Witness ==
    \E r1, r2 \in 1..Len(runs) :
        /\ runs[r1].input["final_exists"] = TRUE
        /\ InTrace(r1, "GenerateFacts")
        /\ runs[r2].input["final_exists"] = FALSE
        /\ runs[r2].input["summary_exists"] = TRUE
        /\ InTrace(r2, "GenerateFacts")

StageNames == {"RetrieveMatchData", "RunGlueETL", "GenerateFacts", "Success"}

RECURSIVE StagesOf(_)
StagesOf(trace) ==
    IF trace = <<>> THEN <<>>
    ELSE IF Head(trace) \in StageNames THEN <<Head(trace)>> \o StagesOf(Tail(trace))
    ELSE StagesOf(Tail(trace))

MaxParticipants == 2   \* longest info.participants list of a payload

Apply(fn, arg) == [fn |-> fn, arg |-> arg, out |-> None, done |-> FALSE]
Result(out) == [calc EXCEPT !.out = out, !.done = TRUE]
OthersUnchanged == UNCHANGED <<ingVars, orchVars, job, summary>>

\* Any payload the endpoint may answer with, and the player asked for.
NormalizeInputs ==
    [match_data : [matchId : {"m1"}, fields : SUBSET PayloadFields,
                   participants : SeqsUpTo(Entries, MaxParticipants)],
     puuid : {"p1", "p2"}]

InitNormalize ==
    /\ store = {}
    /\ apiIds = <<>>
    /\ ing = IngIdle
    /\ posted = <<>>
    /\ fetched = <<>>
    /\ hist = NoHist
    /\ runs = <<>>
    /\ trig = <<>>
    /\ sent = <<>>
    /\ tainted = {}
    /\ job = JobIdle
    /\ summary = {}
    /\ calc \in {Apply("extract_player_stats", a) : a \in NormalizeInputs}

Normalize ==
    /\ calc.fn = "extract_player_stats"
    /\ ~calc.done
    /\ calc' = Result(extract_player_stats(calc.arg.match_data, calc.arg.puuid))
    /\ OthersUnchanged

NextNormalize == Normalize

\* extract_player_stats on any payload.
SpecNormalize ==
    /\ InitNormalize
    /\ [][NextNormalize]_vars

\* The player's entry of a payload: the first entry of that puuid.
IsPlayersEntry(match_data, puuid, i) ==
    /\ i \in 1..Len(match_data.participants)
    /\ match_data.participants[i].puuid = puuid
    /\ \A j \in 1..(i - 1) : match_data.participants[j].puuid # puuid

\* Nothing the record is built from is missing.
HasRequiredFields(match_data, puuid) ==
    /\ StatsFields \subseteq match_data.fields
    /\ \A i \in 1..Len(match_data.participants) :
          IsPlayersEntry(match_data, puuid, i) => match_data.participants[i].stats

\* C11: for every payload and player id the normalizer returns either null or
\* a record built from the player's participant entry; it returns null when
\* the player is not among the participants or a required field is missing;
\* it never raises and it leaves the stored records as they are.
C11_RecordOrNull ==
    /\ [](calc.done =>
            LET md == calc.arg.match_data
                pu == calc.arg.puuid
            IN
            /\ ~IsRaise(calc.out)
            /\ \/ calc.out = None
               \/ \E i \in 1..Len(md.participants) :
                     /\ IsPlayersEntry(md, pu, i)
                     /\ calc.out = [matchId |-> md.matchId,
                                    championName |-> md.participants[i].championName]
            /\ (\/ ~(\E i \in 1..Len(md.participants) : IsPlayersEntry(md, pu, i))
                \/ ~HasRequiredFields(md, pu)) => calc.out = None)
    /\ [][store' = store]_vars

C11_Witness ==
    /\ calc.done
    /\ calc.out # None
    /\ IsPlayersEntry(calc.arg.match_data, calc.arg.puuid, 2)


\* ------------------------------------------------------------------------
\* Claims about the stored records across invocations
\* ------------------------------------------------------------------------

\* The RETRIEVING_MATCH events the running invocation has posted.
Persisted == {k \in 1..Len(posted) : posted[k].state = "RETRIEVING_MATCH"}

\* C12: the bucket never holds two records of the same (player, game id), and
\* no step of an invocation deletes or alters a record already stored:
\* persisting a game again writes the same key with the same content.
C12_OneRecordPerGame ==
    /\ [](\A a \in store : \A b \in store :
            (a.puuid = b.puuid /\ a.match_id = b.match_id) => a = b)
    /\ [][\A o \in store : o \in store']_vars

C12_Witness ==
    /\ ing.pc = "returned"
    /\ Len(ing.new_match_ids) = 2
    /\ ing.new_match_ids[1] = ing.new_match_ids[2]
    /\ Cardinality(Persisted) = 2
    /\ \E o \in store : o.puuid = IngPuuid /\ o.match_id # ing.new_match_ids[1]

\* C13: what an invocation for (P, Y) reports does not depend on records of
\* another pair: the count of the RETRIEVING_MATCH event it posted last is
\* the number of games of P stored for Y.
C13_OtherPairsInvisible ==
    (ing.pc \in {"fetch", "returned"} /\ posted # <<>>
        /\ posted[Len(posted)].state = "RETRIEVING_MATCH")
    => posted[Len(posted)].n = Cardinality({k.match_id : k \in PeriodRecords})


\* ------------------------------------------------------------------------
\* The aggregation job (match-summary.py, main and save_to_s3)
\* ------------------------------------------------------------------------
MaxJobRuns == 2   \* invocations of the job in one behaviour

\* summary/{puuid}/final_summary_{year}.json and its .metadata.json sidecar
SummaryKey(puuid, year, kind) == [puuid |-> puuid, year |-> year, kind |-> kind]
SummaryObject(key, body) ==
    [puuid |-> key.puuid, year |-> key.year, kind |-> key.kind, body |-> body]
put_summary(objs, key, body) ==
    {o \in objs : SummaryKey(o.puuid, o.year, o.kind) # key} \cup {SummaryObject(key, body)}

\* The records under match-history/{puuid}/stats/{year}/
RecordsUnder(puuid, year) == {o \in store : o.puuid = puuid /\ o.year = year}

\* Records the bucket may hold for player p1.
JobRecords ==
    {S3Object(StatsKey("p1", YearOf(id), id), [matchId |-> id, championName |-> "A"]) :
        id \in MatchIds}

InitAggregate ==
    /\ store \in SUBSET JobRecords
    /\ apiIds = <<>>
    /\ ing = IngIdle
    /\ posted = <<>>
    /\ fetched = <<>>
    /\ hist = NoHist
    /\ runs = <<>>
    /\ trig = <<>>
    /\ sent = <<>>
    /\ tainted = {}
    /\ job = JobIdle
    /\ summary = {}
    /\ calc = CalcIdle

JobUnchanged == UNCHANGED <<ingVars, orchVars, calc>>

\* lines 505-511: the job is started with --puuid and --year
JobStart(puuid, year) ==
    /\ job.pc \in {"idle", "done", "failed"}
    /\ job.n < MaxJobRuns
    /\ job' = [JobIdle EXCEPT !.pc = "load", !.puuid = puuid, !.year = year,
                              !.n = job.n + 1]
    /\ UNCHANGED summary
    /\ JobUnchanged

\* lines 514-516: the lookup tables are fetched, outside the try block
JobLoad(ok) ==
    /\ job.pc = "load"
    /\ job' = [job EXCEPT !.pc = IF ok THEN "read" ELSE "failed"]
    /\ UNCHANGED summary
    /\ JobUnchanged

\* lines 520-521: reading a prefix that holds no object raises
JobRead ==
    /\ job.pc = "read"
    /\ LET df == RecordsUnder(job.puuid, job.year) IN
       job' = [job EXCEPT !.df = df, !.pc = IF df = {} THEN "failed" ELSE "compute"]
    /\ UNCHANGED summary
    /\ JobUnchanged

\* lines 522-551: the summaries are computed and combined
JobCompute(ok) ==
    /\ job.pc = "compute"
    /\ job' = IF ok
              THEN [job EXCEPT !.pc = "put_data",
                               !.final_data = [playerPUUID |-> job.puuid,
                                               totalGames |-> Cardinality(job.df)]]
              ELSE [job EXCEPT !.pc = "failed"]
    /\ UNCHANGED summary
    /\ JobUnchanged

\* save_to_s3, lines 480-485: the summary document
JobPutData(ok) ==
    /\ job.pc = "put_data"
    /\ IF ok
       THEN /\ summary' = put_summary(summary, SummaryKey(job.puuid, job.year, "data"),
                                      job.final_data)
            /\ job' = [job EXCEPT !.pc = "put_metadata", !.wrote = @ \cup {"data"}]
       ELSE /\ job' = [job EXCEPT !.pc = "failed"]     \* lines 502-503, 557-559
            /\ UNCHANGED summary
    /\ JobUnchanged

\* save_to_s3, lines 488-499: the sidecar
JobPutMetadata(ok) ==
    /\ job.pc = "put_metadata"
    /\ IF ok
       THEN /\ summary' = put_summary(summary, SummaryKey(job.puuid, job.year, "metadata"),
                                      [puuid |-> job.puuid, year |-> job.year])
            /\ job' = [job EXCEPT !.pc = "done", !.wrote = @ \cup {"metadata"}]
       ELSE /\ job' = [job EXCEPT !.pc = "failed"]     \* lines 502-503, 557-559
            /\ UNCHANGED summary
    /\ JobUnchanged

NextAggregate ==
    \/ \E y \in Years : JobStart("p1", y)
    \/ \E ok \in BOOLEAN : JobLoad(ok)
    \/ JobRead
    \/ \E ok \in BOOLEAN : JobCompute(ok)
    \/ \E ok \in BOOLEAN : JobPutData(ok)
    \/ \E ok \in BOOLEAN : JobPutMetadata(ok)

\* The aggregation job, started for a player and a year.
SpecAggregate ==
    /\ InitAggregate
    /\ [][NextAggregate]_vars

\* C15: when an invocation of the job has ended, by success or by failure at
\* any step, it has written both the summary document and the sidecar or
\* neither of them.
C15_AllOrNothing ==
    job.pc \in {"done", "failed"} =>
        (("data" \in job.wrote) <=> ("metadata" \in job.wrote))


\* ------------------------------------------------------------------------
\* analyze_streaks (match-summary.py lines 390-434)
\* ------------------------------------------------------------------------
MaxGames == 7    \* most records of one player in the year

\* null, where a date is expected (dates are 1, 2, ...)
NullDate == 0

\* The data frame of a player whose games, in date order, had the outcomes ws:
\* one row per game, no two games created in the same second.
Rows(ws) == {[gameDate |-> k, win |-> ws[k]] : k \in 1..Len(ws)}

\* Window.orderBy("gameDate"): the rows before r, and the one just before it.
Before(df, r) == {x \in df : x.gameDate < r.gameDate}
Lag(df, r) == CHOOSE x \in Before(df, r) : \A y \in Before(df, r) : y.gameDate <= x.gameDate

\* when(col("win") != col("prevWin"), 1).otherwise(0); prevWin of the first
\* row is null, the comparison is null and the otherwise branch is taken.
ChangeWhenSame(df, r) ==
    IF Before(df, r) = {} THEN 0
    ELSE IF r.win = Lag(df, r).win THEN 1 ELSE 0
streakChange(df, r) ==
    IF Before(df, r) = {} THEN 0
    ELSE IF r.win # Lag(df, r).win THEN 1 ELSE 0

RECURSIVE SumChanges(_, _)
SumChanges(df, rows) ==
    IF rows = {} THEN 0
    ELSE LET x == CHOOSE x \in rows : TRUE
         IN streakChange(df, x) + SumChanges(df, rows \ {x})

\* _sum("streakChange").over(window_spec): the running sum up to the row
streakGroup(df, r) == SumChanges(df, {x \in df : x.gameDate <= r.gameDate})

DatesOf(rows) == {x.gameDate : x \in rows}
MinOf(S) == CHOOSE a \in S : \A b \in S : a <= b
MaxOf(S) == CHOOSE a \in S : \A b \in S : b <= a

\* lines 402-409: one row per streak group
streaks(df) ==
    {LET rows == {x \in df : streakGroup(df, x) = g} IN
     [streakGroup |-> g,
      streakLength |-> Cardinality(rows),
      isWinStreak |-> \E x \in rows : x.win,
      startDate |-> MinOf(DatesOf(rows)),
      endDate |-> MaxOf(DatesOf(rows))] : g \in {streakGroup(df, x) : x \in df}}

\* .filter(isWinStreak == w).orderBy(desc("streakLength")).limit(1).collect():
\* the lists it may return, any of the longest when several are as long.
LongestStreak(df, w) ==
    LET cand == {t \in streaks(df) : t.isWinStreak = w} IN
    IF cand = {} THEN {<<>>}
    ELSE {<<t>> : t \in {t \in cand : \A u \in cand : u.streakLength <= t.streakLength}}

format_streak(streak_row) ==
    IF streak_row = <<>>
    THEN [length |-> 0, startDate |-> NullDate, endDate |-> NullDate]
    ELSE [length |-> streak_row[1].streakLength,
          startDate |-> streak_row[1].startDate,
          endDate |-> streak_row[1].endDate]

\* The pairs analyze_streaks may return.
analyze_streaks(df) ==
    {<<format_streak(w), format_streak(l)>> :
        w \in LongestStreak(df, TRUE), l \in LongestStreak(df, FALSE)}

StreakInputs == SeqsUpTo(BOOLEAN, MaxGames) \ {<<>>}

InitStreaks ==
    /\ store = {}
    /\ apiIds = <<>>
    /\ ing = IngIdle
    /\ posted = <<>>
    /\ fetched = <<>>
    /\ hist = NoHist
    /\ runs = <<>>
    /\ trig = <<>>
    /\ sent = <<>>
    /\ tainted = {}
    /\ job = JobIdle
    /\ summary = {}
    /\ calc \in {Apply("analyze_streaks", ws) : ws \in StreakInputs}

AnalyzeStreaks ==
    /\ calc.fn = "analyze_streaks"
    /\ ~calc.done
    /\ \E out \in analyze_streaks(Rows(calc.arg)) : calc' = Result(out)
    /\ OthersUnchanged

NextStreaks == AnalyzeStreaks

\* analyze_streaks on any sequence of outcomes.
SpecStreaks ==
    /\ InitStreaks
    /\ [][NextStreaks]_vars

\* Games i..j of ws all have outcome w.
IsRun(ws, i, j, w) == i <= j /\ \A k \in i..j : ws[k] = w
RunLengths(ws, w) ==
    {j - i + 1 : <<i, j>> \in {p \in (1..Len(ws)) \X (1..Len(ws)) : IsRun(ws, p[1], p[2], w)}}

\* What the claim asks of the streak reported for outcome w.
IsLongestRun(ws, w, streak) ==
    IF RunLengths(ws, w) = {}
    THEN streak = [length |-> 0, startDate |-> NullDate, endDate |-> NullDate]
    ELSE /\ streak.length = MaxOf(RunLengths(ws, w))
         /\ IsRun(ws, streak.startDate, streak.endDate, w)
         /\ streak.endDate - streak.startDate + 1 = streak.length

\* C16: for every non-empty sequence of games in date order, the reported win
\* (lose) streak has the length of the longest run of consecutive wins
\* (losses) and the dates of the first and last game of such a run; with no
\* game of the outcome it has length 0 and null dates.
C16_LongestStreaks ==
    (calc.fn = "analyze_streaks" /\ calc.done) =>
        /\ IsLongestRun(calc.arg, TRUE, calc.out[1])
        /\ IsLongestRun(calc.arg, FALSE, calc.out[2])

C16_Witness ==
    /\ calc.fn = "analyze_streaks" /\ calc.done
    /\ calc.arg = <<TRUE, TRUE, FALSE, TRUE, TRUE, TRUE, FALSE>>
    /\ calc.out[1] = [length |-> 3, startDate |-> 4, endDate |-> 6]
    /\ calc.out[2].length = 1


\* ------------------------------------------------------------------------
\* process_match_data: the kda column (match-summary.py lines 149-151)
\* ------------------------------------------------------------------------
MaxStat == 3     \* most kills, deaths or assists of a record

\* Quotients are kept exact, as <<numerator, denominator>>; a denominator of
\* 0 is the division by zero (Spark answers null).
FracEq(a, b) == a[2] # 0 /\ b[2] # 0 /\ a[1] * b[2] = b[1] * a[2]
FracLess(a, b) == a[1] * b[2] < b[1] * a[2]

\* (kills + assists) / when(deaths == 0, 1).otherwise(deaths)
KdaNoGuard(kills, deaths, assists) == <<kills + assists, deaths>>
kda(kills, deaths, assists) == <<kills + assists, IF deaths = 0 THEN 1 ELSE deaths>>

KdaInputs == [kills : 0..MaxStat, deaths : 0..MaxStat, assists : 0..MaxStat]

InitKda ==
    /\ store = {}
    /\ apiIds = <<>>
    /\ ing = IngIdle
    /\ posted = <<>>
    /\ fetched = <<>>
    /\ hist = NoHist
    /\ runs = <<>>
    /\ trig = <<>>
    /\ sent = <<>>
    /\ tainted = {}
    /\ job = JobIdle
    /\ summary = {}
    /\ calc \in {Apply("kda", r) : r \in KdaInputs}

ProcessMatchData ==
    /\ calc.fn = "kda"
    /\ ~calc.done
    /\ calc' = Result(kda(calc.arg.kills, calc.arg.deaths, calc.arg.assists))
    /\ OthersUnchanged

NextKda == ProcessMatchData

\* The kda column of any record.
SpecKda ==
    /\ InitKda
    /\ [][NextKda]_vars

\* C19: for every record KDA = (kills + assists) / max(deaths, 1), and no
\* record makes the division one by zero.
C19_KdaDivisorFloor ==
    (calc.fn = "kda" /\ calc.done) =>
        /\ calc.out[2] # 0
        /\ FracEq(calc.out, <<calc.arg.kills + calc.arg.assists,
                              IF calc.arg.deaths > 1 THEN calc.arg.deaths ELSE 1>>)

C19_Witness ==
    /\ calc.fn = "kda" /\ calc.done
    /\ calc.arg = [kills |-> 3, deaths |-> 0, assists |-> 2]
    /\ FracEq(calc.out, <<5, 1>>)


\* ------------------------------------------------------------------------
\* create_champion_summary (match-summary.py lines 160-207)
\* ------------------------------------------------------------------------
MaxRows == 3     \* most records in the data frame

\* Records as they are read, in input order: two with KDA 2, one with 4, one with 1.
GameModes == {"ARAM", "Ranked"}
ChampionRecords ==
    [championName : Champions, gameMode : GameModes,
     kills : {2, 4}, deaths : {0, 2}, assists : {0}]

\* The processed data frame: a row per record, with its place in the input.
ChampionRows(recs) ==
    {[idx |-> k, championName |-> recs[k].championName, gameMode |-> recs[k].gameMode,
      kills |-> recs[k].kills, deaths |-> recs[k].deaths, assists |-> recs[k].assists,
      kda |-> kda(recs[k].kills, recs[k].deaths, recs[k].assists)] : k \in 1..Len(recs)}

\* partitionBy / groupBy ("championName", "gameMode")
GroupKey(r) == <<r.championName, r.gameMode>>
GroupOf(df, g) == {r \in df : GroupKey(r) = g}

\* row_number().over(partitionBy(...).orderBy(desc("kda"))) = 1: a row no
\* other row of the partition precedes; rows of equal kda come in any order.
RankedLowest(df, g) == {r \in GroupOf(df, g) : \A x \in GroupOf(df, g) : ~FracLess(x.kda, r.kda)}
RankedFirst(df, g) == {r \in GroupOf(df, g) : \A x \in GroupOf(df, g) : ~FracLess(r.kda, x.kda)}

\* avg("kda"): the sum of the group's quotients over their number
RECURSIVE FracSum(_)
FracSum(rows) ==
    IF rows = {} THEN <<0, 1>>
    ELSE LET x == CHOOSE x \in rows : TRUE
             rest == FracSum(rows \ {x})
         IN <<x.kda[1] * rest[2] + rest[1] * x.kda[2], x.kda[2] * rest[2]>>
avg(rows) == <<FracSum(rows)[1], FracSum(rows)[2] * Cardinality(rows)>>

bestGame(r) == [kills |-> r.kills, deaths |-> r.deaths, assists |-> r.assists, kda |-> r.kda]

\* The summaries the function may return: one row per group.
create_champion_summary(df) ==
    LET groups == {GroupKey(r) : r \in df} IN
    {[g \in groups |-> [gamesPlayed |-> Cardinality(GroupOf(df, g)),
                        avgKDA |-> avg(GroupOf(df, g)),
                        bestGame |-> bestGame(best[g])]] :
        best \in {b \in [groups -> df] : \A g \in groups : b[g] \in RankedFirst(df, g)}}

ChampionInputs == SeqsUpTo(ChampionRecords, MaxRows) \ {<<>>}

InitChampion ==
    /\ store = {}
    /\ apiIds = <<>>
    /\ ing = IngIdle
    /\ posted = <<>>
    /\ fetched = <<>>
    /\ hist = NoHist
    /\ runs = <<>>
    /\ trig = <<>>
    /\ sent = <<>>
    /\ tainted = {}
    /\ job = JobIdle
    /\ summary = {}
    /\ calc \in {Apply("create_champion_summary", recs) : recs \in ChampionInputs}

ChampionSummary ==
    /\ calc.fn = "create_champion_summary"
    /\ ~calc.done
    /\ \E out \in create_champion_summary(ChampionRows(calc.arg)) : calc' = Result(out)
    /\ OthersUnchanged

NextChampion == ChampionSummary

\* create_champion_summary on any short list of records.
SpecChampion ==
    /\ InitChampion
    /\ [][NextChampion]_vars

\* The records of a group, by their place in the input, and their KDAs as the
\* claim defines them.
PlacesOf(recs, g) ==
    {k \in 1..Len(recs) : <<recs[k].championName, recs[k].gameMode>> = g}
ClaimKda(rec) == <<rec.kills + rec.assists, IF rec.deaths > 1 THEN rec.deaths ELSE 1>>
IsMaxPlace(recs, g, k) ==
    /\ k \in PlacesOf(recs, g)
    /\ \A j \in PlacesOf(recs, g) : ~FracLess(ClaimKda(recs[k]), ClaimKda(recs[j]))
BestOfRecord(rec) ==
    [kills |-> rec.kills, deaths |-> rec.deaths, assists |-> rec.assists, kda |-> ClaimKda(rec)]

\* The arithmetic mean m of the group's KDAs: the KDAs' differences from m add up to 0.
RECURSIVE DiffSum(_, _, _)
DiffSum(recs, places, m) ==
    IF places = {} THEN <<0, 1>>
    ELSE LET k == CHOOSE k \in places : TRUE
             q == ClaimKda(recs[k])
             d == <<q[1] * m[2] - m[1] * q[2], q[2] * m[2]>>
             rest == DiffSum(recs, places \ {k}, m)
         IN <<d[1] * rest[2] + rest[1] * d[2], d[2] * rest[2]>>
IsMean(recs, g, m) == m[2] # 0 /\ DiffSum(recs, PlacesOf(recs, g), m)[1] = 0

\* C17 as stated: in every champion+mode group the best game is the record
\* of maximal KDA that comes first in input order, and avgKDA is the mean of
\* the group's KDAs.
C17_BestGameFirstOfMaxima ==
    (calc.fn = "create_champion_summary" /\ calc.done) =>
        \A g \in DOMAIN calc.out :
            /\ \E k \in PlacesOf(calc.arg, g) :
                  /\ IsMaxPlace(calc.arg, g, k)
                  /\ \A j \in 1..(k - 1) : ~IsMaxPlace(calc.arg, g, j)
                  /\ calc.out[g].bestGame = BestOfRecord(calc.arg[k])
            /\ IsMean(calc.arg, g, calc.out[g].avgKDA)

\* C17 amended: the best game is a record of maximal KDA in its group, any of
\* them when several have it, and avgKDA is the mean of the group's KDAs.
C17_BestGameOfMaxima ==
    (calc.fn = "create_champion_summary" /\ calc.done) =>
        \A g \in DOMAIN calc.out :
            /\ \E k \in PlacesOf(calc.arg, g) :
                  /\ IsMaxPlace(calc.arg, g, k)
                  /\ calc.out[g].bestGame = BestOfRecord(calc.arg[k])
            /\ IsMean(calc.arg, g, calc.out[g].avgKDA)

C17_Witness ==
    /\ calc.fn = "create_champion_summary" /\ calc.done
    /\ Len(calc.arg) = 2
    /\ ClaimKda(calc.arg[1]) = <<2, 1>>
    /\ ClaimKda(calc.arg[2]) = <<4, 1>>
    /\ \E g \in DOMAIN calc.out :
          /\ calc.out[g].gamesPlayed = 2
          /\ calc.out[g].bestGame = BestOfRecord(calc.arg[2])
          /\ FracEq(calc.out[g].avgKDA, <<3, 1>>)


\* ------------------------------------------------------------------------
\* create_spell_summary / create_rune_summary: the top champions of a combo
\* (match-summary.py lines 268-283 and, word for word, 319-334)
\* ------------------------------------------------------------------------
MaxCount == 5    \* most games of one champion in one combo+mode group
TopN == 5        \* .filter(col("rank") <= 5)

ComboChampions == {"A", "B", "C", "D", "E", "F"}

\* The rows of one combo+mode group, as the number of rows of each champion.
ComboInputs == [ComboChampions -> 0..MaxCount] \ {[c \in ComboChampions |-> 0]}

\* .groupBy(combo, "gameMode", "championName").agg(_count("*")): a row per
\* champion that has rows in the group
gamesPlayed(games) ==
    {[championName |-> c, gamesPlayed |-> games[c]] : c \in {c \in ComboChampions : games[c] > 0}}

\* row_number() over orderBy(desc("gamesPlayed")), .filter(rank <= n): the
\* sets of rows that may be kept; rows of equal count come in any order.
RECURSIVE RankedFewest(_, _)
RankedFewest(rows, n) ==
    IF n = 0 \/ rows = {} THEN {{}}
    ELSE UNION {{{r} \cup S : S \in RankedFewest(rows \ {r}, n - 1)} :
                  r \in {r \in rows : \A x \in rows : r.gamesPlayed <= x.gamesPlayed}}
RECURSIVE RankedAtMost(_, _)
RankedAtMost(rows, n) ==
    IF n = 0 \/ rows = {} THEN {{}}
    ELSE UNION {{{r} \cup S : S \in RankedAtMost(rows \ {r}, n - 1)} :
                  r \in {r \in rows : \A x \in rows : x.gamesPlayed <= r.gamesPlayed}}

\* collect_list(struct("championName", "gamesPlayed")): the lists it may be
champ_usage(games) == RankedAtMost(gamesPlayed(games), TopN)

InitCombo ==
    /\ store = {}
    /\ apiIds = <<>>
    /\ ing = IngIdle
    /\ posted = <<>>
    /\ fetched = <<>>
    /\ hist = NoHist
    /\ runs = <<>>
    /\ trig = <<>>
    /\ sent = <<>>
    /\ tainted = {}
    /\ job = JobIdle
    /\ summary = {}
    /\ calc \in {Apply("champ_usage", games) : games \in ComboInputs}

ChampUsage ==
    /\ calc.fn = "champ_usage"
    /\ ~calc.done
    /\ \E out \in champ_usage(calc.arg) : calc' = Result(out)
    /\ OthersUnchanged

NextCombo == ChampUsage

\* The top champions of any combo+mode group.
SpecCombo ==
    /\ InitCombo
    /\ [][NextCombo]_vars

Played(games) == {c \in ComboChampions : games[c] > 0}
Listed(out) == {t.championName : t \in out}

\* C18: the top-characters list of a combo+mode group has min(5, number of
\* distinct characters of the group) entries, one per character, each with
\* the character's game count in the group, and no character left out has
\* more games in the group than one that is listed.
C18_TopFiveChampions ==
    (calc.fn = "champ_usage" /\ calc.done) =>
        /\ Cardinality(calc.out) = Min(5, Cardinality(Played(calc.arg)))
        /\ Cardinality(Listed(calc.out)) = Cardinality(calc.out)
        /\ Listed(calc.out) \subseteq Played(calc.arg)
        /\ \A t \in calc.out : t.gamesPlayed = calc.arg[t.championName]
        /\ \A c \in Played(calc.arg) \ Listed(calc.out) :
              \A t \in calc.out : calc.arg[c] <= t.gamesPlayed

C18_Witness ==
    /\ calc.fn = "champ_usage" /\ calc.done
    /\ calc.arg = [c \in ComboChampions |->
                      CASE c = "A" -> 5 [] c = "B" -> 5 [] c = "C" -> 3
                        [] c = "D" -> 2 [] c = "E" -> 2 [] OTHER -> 1]
    /\ Listed(calc.out) = {"A", "B", "C", "D", "E"}


\* ------------------------------------------------------------------------
\* create_mapping_udfs (match-summary.py lines 115-136)
\* ------------------------------------------------------------------------
MaxId == 2       \* largest id a lookup table may hold

\* Display names (never empty in the tables the job loads), Python's None,
\* and str() of an id.
Names == {"Boots", "Sword"}
PyNone == "<None>"
str(id) == <<"0", "1", "2", "3", "4", "5", "6", "7", "8", "9">>[id + 1]

\* A lookup table: a dict from some of the ids to names.
Tables == UNION {[D -> Names] : D \in SUBSET (1..MaxId)}
NoTable == [k \in {} |-> ""]

\* dict.get(key) and dict.get(key, default)
Get(d, k) == IF k \in DOMAIN d THEN d[k] ELSE PyNone
GetOr(d, k, default) == IF k \in DOMAIN d THEN d[k] ELSE default

\* a or b
Or(a, b) == IF a # PyNone /\ a # "" THEN a ELSE b

OldFirst(game_data, item_id) ==
    Or(Get(game_data.items.old, item_id),
       Or(Get(game_data.items.latest, item_id), str(item_id)))
map_item(game_data, item_id) ==
    Or(Get(game_data.items.latest, item_id),
       Or(Get(game_data.items.old, item_id), str(item_id)))

map_rune(game_data, rune_id) == GetOr(game_data.runes, rune_id, str(rune_id))

map_spell(game_data, spell_id) == GetOr(game_data.spells, spell_id, str(spell_id))

map_mode(game_data, queue_id) == GetOr(game_data.modes, queue_id, str(queue_id))

\* What load_game_data returns, and the ids looked up: every id of the
\* tables and one that none of them holds.
GameData(latest, old, spells, runes, modes) ==
    [items |-> [latest |-> latest, old |-> old],
     spells |-> spells, runes |-> runes, modes |-> modes]
LookupIds == 1..(MaxId + 1)

MappingInputs ==
    {Apply("map_item", [game_data |-> GameData(l, o, NoTable, NoTable, NoTable), id |-> k]) :
        l \in Tables, o \in Tables, k \in LookupIds}
    \cup {Apply("map_rune", [game_data |-> GameData(NoTable, NoTable, NoTable, t, NoTable),
                             id |-> k]) : t \in Tables, k \in LookupIds}
    \cup {Apply("map_spell", [game_data |-> GameData(NoTable, NoTable, t, NoTable, NoTable),
                              id |-> k]) : t \in Tables, k \in LookupIds}
    \cup {Apply("map_mode", [game_data |-> GameData(NoTable, NoTable, NoTable, NoTable, t),
                             id |-> k]) : t \in Tables, k \in LookupIds}

InitMapping ==
    /\ store = {}
    /\ apiIds = <<>>
    /\ ing = IngIdle
    /\ posted = <<>>
    /\ fetched = <<>>
    /\ hist = NoHist
    /\ runs = <<>>
    /\ trig = <<>>
    /\ sent = <<>>
    /\ tainted = {}
    /\ job = JobIdle
    /\ summary = {}
    /\ calc \in MappingInputs

MapItem ==
    /\ calc.fn = "map_item" /\ ~calc.done
    /\ calc' = Result(map_item(calc.arg.game_data, calc.arg.id))
    /\ OthersUnchanged

MapRune ==
    /\ calc.fn = "map_rune" /\ ~calc.done
    /\ calc' = Result(map_rune(calc.arg.game_data, calc.arg.id))
    /\ OthersUnchanged

MapSpell ==
    /\ calc.fn = "map_spell" /\ ~calc.done
    /\ calc' = Result(map_spell(calc.arg.game_data, calc.arg.id))
    /\ OthersUnchanged

MapMode ==
    /\ calc.fn = "map_mode" /\ ~calc.done
    /\ calc' = Result(map_mode(calc.arg.game_data, calc.arg.id))
    /\ OthersUnchanged

NextMapping ==
    \/ MapItem
    \/ MapRune
    \/ MapSpell
    \/ MapMode

\* The four id-to-name lookups on any tables.
SpecMapping ==
    /\ InitMapping
    /\ [][NextMapping]_vars

\* The table a lookup other than map_item reads.
TableOf(fn, game_data) ==
    CASE fn = "map_rune" -> game_data.runes
      [] fn = "map_spell" -> game_data.spells
      [] fn = "map_mode" -> game_data.modes

\* The decimal digits of the ids looked up.
Decimal(id) == CASE id = 1 -> "1" [] id = 2 -> "2" [] id = 3 -> "3" [] id = 4 -> "4"

\* C20: resolving an id never fails; an id a lookup table holds resolves to
\* its display name there (an item in the latest table first, then in the
\* old one) and an id no table holds resolves to the id written as a string.
C20_ResolveOrStringify ==
    (calc.fn \in {"map_item", "map_rune", "map_spell", "map_mode"} /\ calc.done) =>
        LET g == calc.arg.game_data
            k == calc.arg.id
        IN
        /\ calc.out # PyNone
        /\ calc.fn = "map_item" =>
              calc.out = IF k \in DOMAIN g.items.latest THEN g.items.latest[k]
                         ELSE IF k \in DOMAIN g.items.old THEN g.items.old[k]
                         ELSE Decimal(k)
        /\ calc.fn # "map_item" =>
              calc.out = IF k \in DOMAIN TableOf(calc.fn, g) THEN TableOf(calc.fn, g)[k]
                         ELSE Decimal(k)

C20_Witness ==
    /\ calc.fn = "map_item" /\ calc.done
    /\ calc.arg.id = MaxId + 1
    /\ DOMAIN calc.arg.game_data.items.latest = 1..MaxId
    /\ calc.out = Decimal(calc.arg.id)


FailedPayloadStep ==
    /\ hist' # hist
    /\ hist'.req.kind = "fetch"
    /\ hist'.req.status \notin {200, 429}

\* The id of the last payload request.
LastId(f) == f[Len(f)].id

\* C22 as stated: a failed payload request persists nothing, posts nothing
\* and moves on, and the id is not requested again in the run.
C22_FailedIdNeverRequestedAgain ==
    /\ [][FailedPayloadStep =>
            (store' = store /\ posted' = posted /\ ing'.pc = "fetch" /\ ing'.i = ing.i + 1)]_vars
    /\ [][(hist.req.kind = "fetch" /\ hist.req.status \notin {200, 429}
            /\ Len(fetched') = Len(fetched) + 1) =>
            LastId(fetched') # LastId(fetched)]_vars

\* C22, amended: a failed payload request persists nothing, posts nothing,
\* leaves the set of known ids alone and moves to the next entry of the list
\* of missing ids; that entry of the list is never requested again, and the
\* request after it is for the entry that follows.
C22_FailedEntrySkipped ==
    /\ [][FailedPayloadStep =>
            /\ store' = store
            /\ posted' = posted
            /\ ing'.existing_match_ids = ing.existing_match_ids
            /\ ing'.pc = "fetch"
            /\ ing'.i = ing.i + 1]_vars
    /\ [][(hist.req.kind = "fetch" /\ hist.req.status \notin {200, 429}
            /\ hist' # hist /\ hist'.req.kind = "fetch") =>
            hist'.req.pos = hist.req.pos + 1]_vars

\* The first id failed, and the second was then requested and persisted.
C22_Witness ==
    /\ Len(fetched) = 2
    /\ fetched[1].id # fetched[2].id
    /\ hist.throttled = 0
    /\ hist.req.kind = "fetch" /\ hist.req.pos = 2 /\ hist.req.outcome = "put"
    /\ Cardinality({o \in store : o.puuid = ing.event["puuid"]}) = 1

\* The ids the API lists for the period of the current invocation.
Discovered == apiIds[ing.event["year"]]

Retrieving(events) == SelectSeq(events, LAMBDA ev : ev.state = "RETRIEVING_MATCH")

\* C24 as stated: the counts of the successive RETRIEVING_MATCH events of a
\* run are strictly increasing.
C24_CountsStrictlyIncreasing ==
    \A j, k \in DOMAIN Retrieving(posted) :
        j < k => Retrieving(posted)[j].n < Retrieving(posted)[k].n

\* C24, amended: the counts of the successive RETRIEVING_MATCH events of a
\* run never decrease; an event for an id not persisted before raises the
\* count by one, and an event for an id persisted earlier in the run repeats
\* the count.
C24_CountsNeverDecrease ==
    /\ [](\A j, k \in DOMAIN Retrieving(posted) :
            j < k => Retrieving(posted)[j].n <= Retrieving(posted)[k].n)
    /\ [][LET old == Retrieving(posted)
               new == Retrieving(posted')
           IN (Len(new) = Len(old) + 1 /\ old # <<>>) =>
                 new[Len(new)].n =
                     IF LastId(fetched') \in ing.existing_match_ids
                     THEN old[Len(old)].n ELSE old[Len(old)].n + 1]_vars

\* Two events with rising counts, and two events with the same count.
C24_Witness ==
    /\ Len(Retrieving(posted)) = 2
    /\ Retrieving(posted)[1].n < Retrieving(posted)[2].n

C24_WitnessRepeated ==
    /\ Len(Retrieving(posted)) = 2
    /\ Retrieving(posted)[1].n = Retrieving(posted)[2].n

\* The discovered list without the ids persisted at the start, in its order.
Expected == SelectSeq(Discovered, LAMBDA m : m \notin StoredBefore)

\* C25: the list the fetch loop walks is the discovered list without the ids
\* already persisted, in the discovered order; every payload request is for
\* the entry the loop is at, the first for the first entry and each later
\* one for the same entry (after a rate limit) or the next; a run that
\* returns has walked the whole list.
C25_FetchesMissingInOrder ==
    /\ []((ing.pc \in {"fetch", "returned"}) => ing.new_match_ids = Expected)
    /\ []((ing.pc = "returned") => ing.i = Len(Expected) + 1)
    /\ []((ing.pc = "returned" /\ Expected # <<>>) =>
             (hist.req.kind = "fetch" /\ hist.req.pos = Len(Expected)))
    /\ [][(Len(fetched') = Len(fetched) + 1) =>
            /\ hist'.req.kind = "fetch"
            /\ hist'.req.pos = ing.i
            /\ LastId(fetched') = Expected[ing.i]
            /\ hist'.req.pos = IF hist.req.kind # "fetch" THEN 1
                               ELSE IF hist.req.status = 429 THEN hist.req.pos
                               ELSE hist.req.pos + 1]_vars

\* A run that returned after fetching two ids in the discovered order, an id
\* stored for another player among them.
C25_Witness ==
    /\ ing.pc = "returned"
    /\ Len(fetched) = 2
    /\ fetched[1].id # fetched[2].id
    /\ <<fetched[1].id, fetched[2].id>> = Discovered
    /\ \E o \in ing.store0 : o.match_id = fetched[1].id

\* The invocation is past the reading of its event and was given a
\* non-empty connection id.
Observed == ing.pc \in {"scan", "page", "fetch", "returned"} /\ ing.event["connectionId"] # ""

\* C26: with a non-empty connection id, nothing is sent and no payload is
\* requested before the paging ends; then START_RETRIEVE_MATCH is sent once,
\* with the length of the discovered list; then every payload request that
\* persists a record sends one RETRIEVING_MATCH and every other request
\* sends nothing and writes nothing; a run that returns has sent
\* PROCESSING_MATCH once, last.
C26_EventOrder ==
    /\ []((Observed /\ ing.pc \in {"scan", "page"}) => (posted = <<>> /\ fetched = <<>>))
    /\ []((Observed /\ ing.pc \in {"fetch", "returned"}) =>
            /\ posted # <<>>
            /\ posted[1] = [state |-> "START_RETRIEVE_MATCH", n |-> Len(Discovered)]
            /\ \A k \in 2..Len(posted) : posted[k].state # "START_RETRIEVE_MATCH")
    /\ []((Observed /\ ing.pc = "fetch") =>
            \A k \in 2..Len(posted) : posted[k].state = "RETRIEVING_MATCH")
    /\ []((Observed /\ ing.pc = "returned") =>
            /\ Len(posted) >= 2
            /\ posted[Len(posted)].state = "PROCESSING_MATCH"
            /\ \A k \in 2..(Len(posted) - 1) : posted[k].state = "RETRIEVING_MATCH")
    /\ [][(Observed /\ Len(fetched') = Len(fetched) + 1) =>
            IF hist'.req.outcome = "put"
            THEN /\ Len(posted') = Len(posted) + 1
                 /\ posted'[Len(posted')].state = "RETRIEVING_MATCH"
                 /\ \E o \in store' : o.puuid = ing.event["puuid"]
                                       /\ o.match_id = LastId(fetched')
            ELSE posted' = posted /\ store' = store]_vars

\* A run that returned after two payload requests, one of which persisted a
\* record: start, one progress event, end.
C26_Witness ==
    /\ Observed /\ ing.pc = "returned"
    /\ Len(fetched) = 2 /\ hist.throttled = 0
    /\ Len(posted) = 3

\* C28: a list request answered by a failure other than a rate limit makes
\* the invocation raise, with nothing sent, no payload requested and the
\* bucket as it was at the start; a list request answered by a rate limit
\* changes nothing and is followed by a list request at the same offset, so
\* the accumulated ids are always the discovered list up to the offset.
C28_ListFailureRaisesEarly ==
    /\ []((ing.pc = "raised" /\ ing.cause = "list") =>
            (posted = <<>> /\ fetched = <<>> /\ store = ing.store0))
    /\ [][(hist' # hist /\ hist'.req.kind = "list" /\ hist'.req.status \notin {200, 429}) =>
            /\ ing'.pc = "raised" /\ ing'.cause = "list"
            /\ store' = store /\ posted' = posted]_vars
    /\ []((hist.req.kind = "list" /\ hist.req.status = 429) =>
            (ing.pc = "page" /\ ing.start = hist.req.pos))
    /\ [][(hist' # hist /\ hist'.req.kind = "list" /\ hist'.req.status = 429) =>
            (ing' = ing /\ store' = store /\ posted' = posted)]_vars
    /\ [][(hist.req.kind = "list" /\ hist.req.status = 429 /\ hist' # hist) =>
            (hist'.req.kind = "list" /\ hist'.req.pos = hist.req.pos)]_vars
    /\ []((ing.pc \in {"page", "fetch", "returned"}
            \/ (ing.pc = "raised" /\ ing.cause \in {"list", "payload"})) =>
            ing.all_match_ids = SubSeq(Discovered, 1, Min(ing.start, Len(Discovered))))

\* A list request was rate-limited and repeated, and the request of the
\* second page was answered by a failure: the invocation raised with a page
\* accumulated.
C28_Witness ==
    /\ ing.pc = "raised" /\ ing.cause = "list"
    /\ hist.req.pos > 0
    /\ hist.throttled = 1
    /\ ing.all_match_ids # <<>>

\* ------------------------------------------------------------------------
\* The fact-generation stage and the end of a run
\* ------------------------------------------------------------------------
\* C27: the GenerateFacts stage is invoked with the keys its handler reads,
\* final_exists among them with the value the run was started with; when its
\* external calls succeed it does not raise and posts COMPLETE alone if the
\* flag is true, GENERATING_FACTS and then COMPLETE if it is false; with the
\* flag true it never posts GENERATING_FACTS.
C27_FactsStageHonoursFlag ==
    \A r \in 1..Len(runs) :
        runs[r].state = "GenerateFacts" =>
            LET event == TaskPayload(GeneratePayloadKeys, runs[r].vars)
                flag == runs[r].input["final_exists"]
            IN
            /\ GenerateEventKeys \subseteq DOMAIN event
            /\ event["final_exists"] = flag
            /\ ~InvokeGenerate(event, TRUE).raised
            /\ InvokeGenerate(event, TRUE).events =
                  PostTo(event, IF flag THEN <<"COMPLETE">>
                                ELSE <<"GENERATING_FACTS", "COMPLETE">>)
            /\ flag => InvokeGenerate(event, FALSE).events = <<>>

\* The stages of the state machine, and the state each goes to when it
\* completes.
Stages == {"RetrieveMatchData", "RunGlueETL", "GenerateFacts", "SendFailMessage"}
Successor(stage) ==
    CASE stage = "RetrieveMatchData" -> "RunGlueETL"
      [] stage = "RunGlueETL" -> "BedrockIngestionNote"
      [] stage = "GenerateFacts" -> "Success"
      [] stage = "SendFailMessage" -> "Failed"

Over(r) == r <= Len(runs) /\ runs[r].status \in {"SUCCEEDED", "FAILED"}

InputOfRequest(h) ==
    [puuid |-> trig[h].body.puuid, year |-> trig[h].body.year,
     summary_exists |-> trig[h].body.summary_exists,
     final_exists |-> trig[h].body.final_exists,
     routing_value |-> trig[h].body.routing_value,
     connectionId |-> ConnIds[h]]

\* C30: a request handled while no run for its (player, year) was active,
\* whatever runs were active for other pairs, is not answered BUSY and
\* starts one run, whose input holds the request's player, year, two flags
\* and routing value and the connection id of the requester.
C30_OtherPairsDoNotBlock ==
    \A h \in DOMAIN trig :
        (trig[h].pc = "done" /\ ~trig[h].rival) =>
            /\ trig[h].outcome = "started"
            /\ Count(sent[ConnIds[h]], {"BUSY"}) = 0
            /\ Cardinality({r \in 1..Len(runs) : runs[r].input = InputOfRequest(h)}) = 1

\* The second request went through the check and started a run while the
\* run of the same player for the other year was active.
C30_Witness ==
    /\ trig[1].pc = "done" /\ trig[2].pc = "done"
    /\ trig[2].outcome = "started" /\ ~trig[2].rival
    /\ NeedsCheck(trig[2].body)
    /\ Len(runs) = 2
    /\ runs[1].status = "RUNNING"
    /\ runs[1].input["connectionId"] = ConnIds[1]
    /\ runs[1].input["puuid"] = runs[2].input["puuid"]
    /\ runs[1].input["year"] # runs[2].input["year"]

=============================================================================
